---- MODULE Spec2Model ----
(***************************************************************************)
(* Conversation orchestration engine of the Medusa store chatbot           *)
(* (src/app.py): the /chat handler, the decide / dispatch / accumulate     *)
(* graph, the tool executors with their global side channel                *)
(* extracted_data, and the checkpointer that stores one state per          *)
(* thread_id.                                                              *)
(*                                                                         *)
(* Python dicts are functions with a string domain (a record whose set of  *)
(* fields varies); an ordered dict whose order is observed (product_id_map,*)
(* product_variants) is a sequence of <<key, value>> pairs.  Python's None *)
(* is the string "None", which is also how an f-string renders it.         *)
(***************************************************************************)
EXTENDS Integers, Sequences, FiniteSets, TLC

\* ------------------------------------------------------------------ bounds
MaxDispatch == 2   \* Dispatch steps the model backend asks for in one run

TickMinutes == 15  \* minutes the clock of the store advances in one step

\* ------------------------------------------------------------ constants
DefaultTtl == 30   \* ttl={"default_ttl": 30}: minutes a stored state is kept

\* ----------------------------------------------------------- dict helpers
EmptyDict == [k \in {} |-> ""]

Has(d, k) == k \in DOMAIN d

Put(d, k, v) == [x \in (DOMAIN d) \cup {k} |-> IF x = k THEN v ELSE d[x]]

None == "None"

\* bool(s) of a string or None
Truthy(s) == s # "" /\ s # None

\* d.get(k) of a string value
GetStr(d, k) == IF Has(d, k) THEN d[k] ELSE None

\* d.get(k, []) for a list value
GetSeq(d, k) == IF Has(d, k) THEN d[k] ELSE <<>>

Contains(s, x) == \E i \in 1..Len(s) : s[i] = x

Take(s, n) == SubSeq(s, 1, IF Len(s) < n THEN Len(s) ELSE n)

LastN(s, n) == SubSeq(s, IF Len(s) > n THEN Len(s) - n + 1 ELSE 1, Len(s))

Reverse(s) == [i \in 1..Len(s) |-> s[Len(s) + 1 - i]]

\* an insertion-ordered dict as a sequence of <<key, value>>: d[k] = v
HasKey(od, k) == \E i \in 1..Len(od) : od[i][1] = k

Lookup(od, k) == od[CHOOSE i \in 1..Len(od) : od[i][1] = k][2]

OrdPut(od, k, v) ==
    IF HasKey(od, k)
    THEN [i \in 1..Len(od) |-> IF od[i][1] = k THEN <<k, v>> ELSE od[i]]
    ELSE Append(od, <<k, v>>)

Keys(od) == {od[i][1] : i \in 1..Len(od)}

\* ---------------------------------------------------------- str helpers
\* str.lower() on the titles of the catalogue
Lower(s) ==
    CASE s = "Shirt" -> "shirt"
      [] s = "Hat"   -> "hat"
      [] s = "Cap"   -> "cap"
      [] OTHER       -> s

\* str(float): the tool schema declares max_price: float
FloatStr(n) ==
    CASE n = 20 -> "20.0"
      [] n = 50 -> "50.0"
      [] OTHER  -> "0.0"

\* str(int) of a small count
IntStr(n) ==
    CASE n = 0 -> "0"
      [] n = 1 -> "1"
      [] n = 2 -> "2"
      [] n = 3 -> "3"
      [] n = 4 -> "4"
      [] OTHER -> "5"

\* "a b".strip() for the two parts of a name
JoinName(first, last) ==
    IF first = "" THEN last
    ELSE IF last = "" THEN first
    ELSE first \o " " \o last

RECURSIVE Join(_, _)
Join(s, sep) ==
    IF s = <<>> THEN ""
    ELSE IF Len(s) = 1 THEN s[1]
    ELSE s[1] \o sep \o Join(Tail(s), sep)

\* ------------------------------------------------------ Metadata Accumulator
\* `if "k" not in metadata: metadata["k"] = []`
SetDefault(d, k, v) == IF Has(d, k) THEN d ELSE Put(d, k, v)

\* the names of one message's tool calls, appended when not yet in tools_used
RECURSIVE AddToolNames(_, _)
AddToolNames(used, names) ==
    IF names = <<>> THEN used
    ELSE AddToolNames(
             IF Truthy(Head(names)) /\ ~Contains(used, Head(names))
             THEN Append(used, Head(names)) ELSE used,
             Tail(names))

\* `for message in reversed(messages[-5:])`; msgs is already reversed
RECURSIVE ScanToolCalls(_, _)
ScanToolCalls(used, msgs) ==
    IF msgs = <<>> THEN used
    ELSE ScanToolCalls(AddToolNames(used, Head(msgs).tool_calls), Tail(msgs))

\* the loop over the products without the test for a title already recorded
RECURSIVE FoldProductsBug(_, _)
FoldProductsBug(md, products) ==
    IF products = <<>> THEN md
    ELSE LET title == Head(products).title
             pid   == Head(products).id
             m1    == IF Truthy(title)
                      THEN Put(md, "products_discussed", Append(md.products_discussed, title))
                      ELSE md
             m2    == IF Truthy(title) /\ Truthy(pid)
                      THEN Put(m1, "product_id_map", OrdPut(m1.product_id_map, Lower(title), pid))
                      ELSE m1
         IN  FoldProductsBug(m2, Tail(products))

\* `for product in extracted_data["products"][:3]`
RECURSIVE FoldProducts(_, _)
FoldProducts(md, products) ==
    IF products = <<>> THEN md
    ELSE LET title == Head(products).title
             pid   == Head(products).id
             m1    == IF Truthy(title) /\ ~Contains(md.products_discussed, title)
                      THEN Put(md, "products_discussed", Append(md.products_discussed, title))
                      ELSE md
             m2    == IF Truthy(title) /\ Truthy(pid)
                      THEN Put(m1, "product_id_map", OrdPut(m1.product_id_map, Lower(title), pid))
                      ELSE m1
         IN  FoldProducts(m2, Tail(products))

\* the variant list stored as the backend returned it
VariantInfoBug(variants) == variants

\* the variant list reduced to {id, title, options}
VariantInfo(variants) ==
    [i \in 1..Len(variants) |->
        [id |-> variants[i].id, title |-> variants[i].title, options |-> variants[i].options]]

FoldSearch(md, ed) ==
    LET m1 == FoldProducts(md, Take(ed.products, 3))
    IN  IF Truthy(GetStr(ed, "query"))
        THEN Put(m1, "last_search_query", ed.query)
        ELSE m1

FoldProductDetails(md, ed) ==
    LET product  == ed.product
        pid      == product.id
        title    == product.title
        variants == product.variants
    IN  IF Truthy(pid) /\ variants # <<>>
        THEN LET m1 == Put(md, "product_variants",
                           OrdPut(md.product_variants, pid, VariantInfo(variants)))
                 m2 == IF Truthy(title) /\ ~Contains(m1.products_discussed, title)
                       THEN Put(m1, "products_discussed", Append(m1.products_discussed, title))
                       ELSE m1
             IN  IF Truthy(title) /\ Truthy(pid)
                 THEN Put(m2, "product_id_map", OrdPut(m2.product_id_map, Lower(title), pid))
                 ELSE m2
        ELSE md

FoldCart(md, ed) ==
    IF Has(ed.cart, "items")
    THEN Put(md, "cart_items_count", Len(ed.cart.items))
    ELSE md

FoldCustomer(md, ed) ==
    IF Truthy(GetStr(ed.customer, "first_name"))
    THEN Put(md, "customer_name",
             JoinName(GetStr(ed.customer, "first_name"), GetStr(ed.customer, "last_name")))
    ELSE md

\* a fold that picks its branch by the fields the payload holds, whatever
\* its type
FoldExtractedBug(md, ed) ==
    IF ed = EmptyDict THEN md
    ELSE CASE GetSeq(ed, "products") # <<>> -> FoldSearch(md, ed)
           [] Has(ed, "product")            -> FoldProductDetails(md, ed)
           [] Has(ed, "cart")               -> FoldCart(md, ed)
           [] Has(ed, "customer")           -> FoldCustomer(md, ed)
           [] OTHER                         -> md

\* the `if extracted_data:` block: one branch by extracted_data["type"]
FoldExtracted(md, ed) ==
    IF ed = EmptyDict THEN md
    ELSE LET data_type == GetStr(ed, "type")
         IN  CASE data_type = "search" /\ GetSeq(ed, "products") # <<>> ->
                      FoldSearch(md, ed)
               [] data_type = "product_details" /\ Has(ed, "product") ->
                      FoldProductDetails(md, ed)
               [] data_type = "cart" /\ Has(ed, "cart") ->
                      FoldCart(md, ed)
               [] data_type = "customer" /\ Has(ed, "customer") ->
                      FoldCustomer(md, ed)
               [] OTHER -> md

\* the node update_metadata: the new value of the metadata channel
update_metadata(metadata, messages, ed) ==
    LET m0 == SetDefault(SetDefault(SetDefault(SetDefault(metadata,
                  "products_discussed", <<>>), "product_id_map", <<>>),
                  "product_variants", <<>>), "tools_used", <<>>)
        m1 == Put(m0, "tools_used",
                  ScanToolCalls(m0.tools_used, Reverse(LastN(messages, 5))))
    IN  FoldExtracted(m1, ed)

\* ------------------------------------------------------------ Context Builder
\* `metadata.get(k)` is truthy: for a list or dict, a string, an int
PresentSeq(md, k) == Has(md, k) /\ md[k] # <<>>

PresentStr(md, k) == Has(md, k) /\ Truthy(md[k])

\* a test for the key alone, which lets a count of 0 through
PresentIntBug(md, k) == Has(md, k)

PresentInt(md, k) == Has(md, k) /\ md[k] # 0

IdLine(od) == [i \in 1..Len(od) |-> "'" \o od[i][1] \o "': " \o od[i][2]]

OptionsStr(options) ==
    Join([i \in 1..Len(options) |-> options[i][1] \o "=" \o options[i][2]], ", ")

VariantLine(v) == v.title \o " (ID: " \o v.id \o ", " \o OptionsStr(v.options) \o ")"

\* the variants of the last 2 products, at most 5 of each
RECURSIVE VariantsContext(_)
VariantsContext(od) ==
    IF od = <<>> THEN <<>>
    ELSE LET variants == Take(Head(od)[2], 5)
         IN  [i \in 1..Len(variants) |-> VariantLine(variants[i])] \o VariantsContext(Tail(od))

\* context_parts of tool_calling_llm
context_parts(md) ==
    (IF PresentSeq(md, "products_discussed")
     THEN <<"Products recently discussed: " \o Join(LastN(md.products_discussed, 3), ", ")>>
     ELSE <<>>)
    \o (IF PresentSeq(md, "product_id_map")
        THEN <<"Product IDs: " \o Join(IdLine(LastN(md.product_id_map, 5)), ", ")>>
        ELSE <<>>)
    \o (IF PresentSeq(md, "product_variants")
           /\ VariantsContext(LastN(md.product_variants, 2)) # <<>>
        THEN <<"Available variants: "
               \o Join(VariantsContext(LastN(md.product_variants, 2)), "; ")>>
        ELSE <<>>)
    \o (IF PresentStr(md, "last_search_query")
        THEN <<"Last search: '" \o md.last_search_query \o "'">>
        ELSE <<>>)
    \o (IF PresentInt(md, "cart_items_count")
        THEN <<"Cart has " \o IntStr(md.cart_items_count) \o " items">>
        ELSE <<>>)
    \o (IF PresentStr(md, "customer_name")
        THEN <<"Customer: " \o md.customer_name>>
        ELSE <<>>)

\* `"\n".join(context_parts) if context_parts else "No previous context"`
context_str(md) ==
    IF context_parts(md) # <<>> THEN Join(context_parts(md), "\n")
    ELSE "No previous context"

\* the fixed text of the system prompt before and after the context (the tool
\* list and the style rules that follow "TOOLS:" are left out)
PromptHead == "You are a helpful assistant for a Medusa e-commerce store.\n\n"

PromptTail == "\n\nTOOLS:"

\* system_content of tool_calling_llm: `{context_str if context_parts else ''}`
system_content(md) ==
    PromptHead \o (IF context_parts(md) # <<>> THEN context_str(md) ELSE "") \o PromptTail

\* ------------------------------------------------------------ backends
\* what the external collaborators may answer; every call may also fail
Product(id, title) == [id |-> id, title |-> title]

\* the hits the search backend may return for a query, best first
SearchHits(query) ==
    IF query = "cap"
    THEN { <<>>, <<Product("p4", "Cap"), Product("p3", "Hat")>> }
    ELSE { <<>>,
           <<Product("p3", "Hat"), Product("p2", "shirt"),
             Product("p1", "Shirt"), Product("p4", "Cap")>> }

Variant(id, title, size) ==
    [id |-> id, title |-> title, sku |-> None, options |-> <<<<"Size", size>>>>]

\* GET /store/products/{id}
ProductDb(pid) ==
    CASE pid = "p1" -> [id |-> "p1", title |-> "Shirt",
                        variants |-> <<Variant("v1", "S", "S"), Variant("v2", "M", "M"),
                                       Variant("v3", "L", "L")>>]
      [] pid = "p3" -> [id |-> "p3", title |-> "Hat",
                        variants |-> <<Variant("v4", "One", "One")>>]
      [] OTHER      -> [id |-> pid, title |-> "Cap", variants |-> <<>>]

\* the items a cart may hold, as their variant ids
CartItems == { <<>>, <<"v1", "v4">> }

Customers ==
    { [first_name |-> "Ann", last_name |-> "Lee"],
      [first_name |-> None, last_name |-> "Lee"] }

Orders == { <<[display_id |-> 1]>> }

\* ------------------------------------------------------------ Tool Registry
\* What one execution of a tool does: the assignments it makes to the global
\* extracted_data, in order; the string it returns; whether it raises instead;
\* the backend calls it makes.
Outcome(writes, text, backend) ==
    [writes |-> writes, text |-> text, raised |-> FALSE, backend |-> backend]

Raises(backend) ==
    [writes |-> <<>>, text |-> "", raised |-> TRUE, backend |-> backend]

get_my_cart(cart_id) ==
    IF ~Truthy(cart_id)
    THEN { Outcome(<<>>, "No cart ID provided.", <<>>) }
    ELSE { Outcome(<< <<"cart", [error |-> "Failed to fetch cart"]>>, <<"type", "cart">> >>,
                   "error: Failed to fetch cart", <<"get_cart">>) }
         \cup
         { Outcome(<< <<"cart", [cart_id |-> cart_id, items |-> items]>>, <<"type", "cart">> >>,
                   IF items = <<>> THEN "Your cart is empty."
                   ELSE "Your Shopping Cart (" \o IntStr(Len(items)) \o " items)",
                   <<"get_cart">>) : items \in CartItems }

get_my_orders ==
    { Outcome(<<>>, "Unable to fetch orders", <<"list_orders">>) }
    \cup
    { Outcome(<< <<"orders", orders>>, <<"type", "list">> >>,
              IF orders = <<>> THEN "You don't have any orders yet."
              ELSE "Here are your " \o IntStr(Len(orders)) \o " order(s)",
              <<"list_orders">>) : orders \in Orders }

get_order_by_number(display_id) ==
    { Outcome(<< <<"order", [error |-> "Order with provided display_id not found."]>>,
                 <<"type", "single">> >>,
              "Order not found.", <<"list_orders">>),
      Raises(<<"list_orders", "get_order">>),
      Outcome(<< <<"order", [display_id |-> display_id]>>, <<"type", "single">> >>,
              "Here's the details for Order", <<"list_orders", "get_order">>) }

\* the text of search_products_tool / search_products_by_price_tool, which
\* search a second time and catch every exception of that search
SearchText(hits, ok) ==
    IF ~ok THEN "Error searching for products"
    ELSE IF hits = <<>> THEN "No products found"
    ELSE "Found " \o IntStr(Len(hits)) \o " product(s)"

\* the answers of the two searches of one execution: the hits of the first,
\* and whether the second succeeds
SearchAnswers(query) ==
    { a \in [hits : SearchHits(query), ok : BOOLEAN] : a.ok \/ a.hits # <<>> }

search_products(query) ==
    { Raises(<<"search">>) }
    \cup
    { Outcome(<< <<"products", a.hits>>, <<"type", "search">>, <<"query", query>> >>,
              SearchText(a.hits, a.ok), <<"search", "search">>) : a \in SearchAnswers(query) }

search_by_price(query, max_price) ==
    { Raises(<<"search">>) }
    \cup
    { Outcome(<< <<"products", a.hits>>, <<"type", "price_search">>,
                 <<"max_price", max_price>>,
                 <<"query", query \o " (under $" \o FloatStr(max_price) \o ")">> >>,
              SearchText(a.hits, a.ok), <<"search", "search">>) : a \in SearchAnswers(query) }

search_knowledge_base(query) ==
    { Outcome(<<>>, text, <<"knowledge_base">>) :
        text \in {"answer"} }

get_my_info ==
    { Outcome(<< <<"customer", [error |-> "Failed to fetch customer info"]>>,
                 <<"type", "customer_info">> >>,
              "error: Failed to fetch customer info", <<"get_customer_info">>) }
    \cup
    { Outcome(<< <<"customer", c>>, <<"type", "customer_info">> >>,
              "Here's your account information", <<"get_customer_info">>) : c \in Customers }

\* the tail of add_product_to_cart, from `result = add_to_cart(...)`
AddToCart(variant_id, backend) ==
    { Outcome(<< <<"cart", [error |-> "Failed to add to cart"]>>, <<"type", "cart_updated">> >>,
              "error: Failed to add to cart", Append(backend, "add_to_cart")) }
    \cup
    { Outcome(<< <<"cart", [items |-> items, items_count |-> Len(items)]>>,
                 <<"type", "cart_updated">> >>,
              "Added to cart!", Append(backend, "add_to_cart")) :
        items \in { c \in CartItems : Contains(c, variant_id) } }

\* a table that stops after its first row
VariantTitlesFirst(variants) == <<variants[1].title>>

\* the rows of the table of variants: `for i, variant in enumerate(variants, 1)`
VariantTitles(variants) == [i \in 1..Len(variants) |-> variants[i].title]

\* a tool that takes the first variant of a product that has several
add_product_to_cart_first(cart_id, product_id, variant_id) ==
    IF ~Truthy(cart_id)
    THEN { Outcome(<<>>, "No cart ID provided.", <<>>) }
    ELSE IF Truthy(product_id) /\ ~Truthy(variant_id)
    THEN { Outcome(<<>>, "error: Failed to fetch product", <<"get_product_by_id">>) }
         \cup
         ( LET variants == ProductDb(product_id).variants
           IN  IF Len(variants) >= 1
               THEN AddToCart(variants[1].id, <<"get_product_by_id">>)
               ELSE { Outcome(<<>>, "This product has no available variants.",
                              <<"get_product_by_id">>) } )
    ELSE IF ~Truthy(variant_id)
    THEN { Outcome(<<>>, "Please specify which product variant", <<>>) }
    ELSE AddToCart(variant_id, <<>>)

add_product_to_cart(cart_id, product_id, variant_id) ==
    IF ~Truthy(cart_id)
    THEN { Outcome(<<>>, "No cart ID provided.", <<>>) }
    ELSE IF Truthy(product_id) /\ ~Truthy(variant_id)
    THEN { Outcome(<<>>, "error: Failed to fetch product", <<"get_product_by_id">>) }
         \cup
         ( LET product  == ProductDb(product_id)
               variants == product.variants
           IN  IF Len(variants) > 1
               THEN { Outcome(<< <<"product", product>>, <<"type", "product_details">> >>,
                              "Choose your variant: " \o Join(VariantTitles(variants), ", "),
                              <<"get_product_by_id">>) }
               ELSE IF Len(variants) = 1
               THEN AddToCart(variants[1].id, <<"get_product_by_id">>)
               ELSE { Outcome(<<>>, "This product has no available variants.",
                              <<"get_product_by_id">>) } )
    ELSE IF ~Truthy(variant_id)
    THEN { Outcome(<<>>, "Please specify which product variant", <<>>) }
    ELSE AddToCart(variant_id, <<>>)

\* a tool call as the model backend requests it
Call(name, args) == [name |-> name, args |-> args]

\* the executor the registry binds to a call's name
Execute(call, cart_id) ==
    CASE call.name = "get_my_cart"           -> get_my_cart(cart_id)
      [] call.name = "get_my_orders"         -> get_my_orders
      [] call.name = "get_order_by_number"   -> get_order_by_number(call.args.display_id)
      [] call.name = "search_products"       -> search_products(call.args.query)
      [] call.name = "search_by_price"       ->
             search_by_price(call.args.query, call.args.max_price)
      [] call.name = "search_knowledge_base" -> search_knowledge_base(call.args.query)
      [] call.name = "get_my_info"           -> get_my_info
      [] call.name = "add_product_to_cart"   ->
             add_product_to_cart(cart_id, call.args.product_id, call.args.variant_id)

\* ------------------------------------------------------------ messages
HumanMessage(content) == [role |-> "human", content |-> content, tool_calls |-> <<>>]

AIMessage(content, calls) ==
    [role |-> "ai", content |-> content,
     tool_calls |-> [i \in 1..Len(calls) |-> calls[i].name]]

ToolMessage(content) == [role |-> "tool", content |-> content, tool_calls |-> <<>>]

\* a reducer that keeps only the update
add_messages_replace(left, right) == right

\* the reducer of the messages channel: the update is appended to the stored
\* messages (every message has an id of its own, so none is replaced)
add_messages(left, right) == left \o right

\* ------------------------------------------------------------ inputs
Threads == {"t1", "t2"}

\* the chat requests of one run, by their order of arrival
Slots == {1, 2}

\* the text of a terminal assistant message
AnswerTexts == {"", "answer"}

SearchHat    == Call("search_products", [query |-> "hat"])
SearchCap    == Call("search_products", [query |-> "cap"])
SearchPrice  == Call("search_by_price", [query |-> "t-shirts", max_price |-> 20])
GetCart      == Call("get_my_cart", EmptyDict)
GetOrders    == Call("get_my_orders", EmptyDict)
GetOrder     == Call("get_order_by_number", [display_id |-> 1])
AskKb        == Call("search_knowledge_base", [query |-> "returns"])
GetInfo      == Call("get_my_info", EmptyDict)
AddProduct(pid) == Call("add_product_to_cart", [product_id |-> pid, variant_id |-> None])
AddVariant(vid) == Call("add_product_to_cart", [product_id |-> None, variant_id |-> vid])
AddBoth(pid, vid) == Call("add_product_to_cart", [product_id |-> pid, variant_id |-> vid])

\* One run: the caller's cart id, and the tool requests the model backend
\* may return in a Decision.
Scenario(cart_id, menu) == [cart_id |-> cart_id, menu |-> menu]

Scenarios ==
    { Scenario(None,     {<<SearchHat>>, <<SearchPrice>>}),
      Scenario("cart_1", {<<GetCart>>, <<AskKb>>}),
      Scenario("cart_1", {<<AddProduct("p3")>>, <<AddBoth("p1", "v1")>>}),
      Scenario("cart_1", {<<AddProduct("p1")>>, <<AddVariant("v1")>>}),
      Scenario("cart_1", {<<AddProduct("p4")>>, <<AddProduct(None)>>}),
      Scenario(None,     {<<GetCart>>, <<AddProduct("p1")>>}),
      Scenario(None,     {<<GetInfo>>, <<GetOrders>>}),
      Scenario(None,     {<<GetOrder, AskKb>>}),
      Scenario(None,     {<<GetCart, AddProduct("p1"), AskKb, AskKb, AskKb>>}) }

\* runs in which one turn gathers several payloads: two tools that both
\* write a payload requested in one message, two searches with different hits
BusyScenarios ==
    { Scenario("cart_1", {<<SearchHat, GetCart>>}),
      Scenario(None,     {<<SearchHat>>, <<SearchCap>>}) }

\* ------------------------------------------------------------ state
VARIABLES
    store,            \* checkpointer: thread_id -> the latest checkpoint's channel values
    extracted_data,   \* the module-level dict the tools write
    turn,             \* slot -> the request in that slot and its position in chat()
    dispatched,       \* number of Dispatch steps started so far
    scenario,         \* the caller and the model backend of this run
    committed,        \* thread_id -> the channel values when its last turn returned
    writers,          \* the requests whose tools wrote what extracted_data holds
    age,              \* thread_id -> minutes since its state was last written
    cleared           \* thread_ids for which clear_conversation answered success
                      \* and on which no request has started since

vars == <<store, extracted_data, turn, dispatched, scenario, committed, writers, age,
          cleared>>

\* a POST /chat that waits for the event loop
Queued(id, t) ==
    [pc |-> "queued", id |-> id, thread |-> t, messages |-> <<>>,
     metadata |-> EmptyDict, calls |-> <<>>, base |-> 0, wrote |-> FALSE, steps |-> 0]

\* a request that has been answered; wrote: its tools wrote to extracted_data
Closed(r) == [Queued(r.id, r.thread) EXCEPT !.pc = "closed", !.wrote = r.wrote]

\* the request is inside graph.invoke or between it and the return
InTurn(s) == turn[s].pc \in {"llm", "tools", "update_metadata", "done", "failed"}

Values(messages, metadata) == [messages |-> messages, metadata |-> metadata]

\* the state after start-up, before the first request is handled
Start(scenarios) ==
    /\ store = [t \in Threads |-> EmptyDict]
    /\ extracted_data = EmptyDict
    /\ \E ts \in [Slots -> Threads] :
          /\ ts[1] = "t1"
          /\ turn = [s \in Slots |-> Queued(s, ts[s])]
    /\ dispatched = 0
    /\ scenario \in scenarios
    /\ committed = [t \in Threads |-> EmptyDict]
    /\ writers = {}
    /\ age = [t \in Threads |-> 0]
    /\ cleared = {}

Init == Start(Scenarios)

\* ------------------------------------------------------------ checkpointer
\* a stored state the serializer cannot read back
Unreadable == [unreadable |-> TRUE]

\* graph.get_state returns: the stored bytes deserialize
CanLoad(current) == ~Has(current, "unreadable")

\* a store that keeps every state for ever
ExpiredNever(minutes) == FALSE

\* the keys of a state are gone once the ttl set when they were written is up
Expired(minutes) == minutes >= DefaultTtl

\* ------------------------------------------------------------ chat handler
\* a handler that yields the event loop while it waits
EventLoopShared == TRUE

\* chat() is a coroutine without an await: once started it holds the event
\* loop until it returns, so a request starts only when no other is running.
EventLoopFree == \A s \in Slots : ~InTurn(s)

\* a chat() that leaves the side channel as the last request left it
ChatResetMissing(ed) == ed

\* `extracted_data = {}` at the top of chat()
ChatReset(ed) == EmptyDict

\* a chat() that sends the initial metadata with every request
IsNewConversationAlways(current) == TRUE

\* the test for a new conversation on the stored values
IsNewConversation(current) == current = EmptyDict \/ ~Has(current, "metadata")

\* a new conversation that is given no metadata
FreshMetadataBug == EmptyDict

\* the metadata of a new conversation
FreshMetadata ==
    [products_discussed |-> <<>>, tools_used |-> <<>>, conversation_started |-> "md5(token)"]

\* chat() up to the first node of graph.invoke: reset the side channel, read
\* the stored state, build the input and apply it to the channels
ChatBegin(s) ==
    /\ turn[s].pc = "queued"
    /\ \A r \in Slots : r < s => turn[r].pc # "queued"
    /\ EventLoopFree
    /\ CanLoad(store[turn[s].thread])
    /\ LET t        == turn[s].thread
           current  == store[t]
           fresh    == IsNewConversation(current)
           messages == add_messages(GetSeq(current, "messages"), <<HumanMessage("query")>>)
           metadata == IF fresh THEN FreshMetadata ELSE current.metadata
       IN  /\ extracted_data' = ChatReset(extracted_data)
           /\ writers' = IF extracted_data' = EmptyDict THEN {} ELSE writers
           /\ turn' = [turn EXCEPT ![s] =
                          [@ EXCEPT !.pc = "llm", !.messages = messages,
                                    !.metadata = metadata,
                                    !.base = Len(messages)]]
           /\ store' = [store EXCEPT ![t] = Values(messages, metadata)]
           /\ age' = [age EXCEPT ![t] = 0]
           /\ cleared' = cleared \ {t}
    /\ UNCHANGED <<dispatched, scenario, committed>>

\* ------------------------------------------------------------ graph
tools_condition_always(message) == "tools"

\* graph.invoke is called with a config that sets no recursion_limit, so the
\* default of the graph library applies: a run is stopped when it has made
\* this number of supersteps (node executions, here) and is not finished
RecursionLimit == 25

\* a graph that is run without a limit on its supersteps
OutOfStepsNever(steps) == FALSE

\* the run has used up its supersteps
OutOfSteps(steps) == steps >= RecursionLimit

\* the runs in which the model backend may request a tool at every Decision
LoopScenarios == { Scenario(None, {<<AskKb>>}) }

\* tools_condition: the node after tool_calling_llm
tools_condition(message) == IF message.tool_calls # <<>> THEN "tools" ELSE "done"

\* node tool_calling_llm: the model backend answers with a terminal message or
\* with tool requests, and the state is checkpointed
Decide(s, content, calls) ==
    /\ turn[s].pc = "llm"
    /\ ~OutOfSteps(turn[s].steps)
    /\ calls # <<>> => (dispatched < MaxDispatch \/ scenario \in LoopScenarios)
    /\ LET message  == AIMessage(content, calls)
           messages == add_messages(turn[s].messages, <<message>>)
       IN  /\ turn' = [turn EXCEPT ![s] =
                          [@ EXCEPT !.pc = tools_condition(message),
                                    !.messages = messages, !.calls = calls,
                                    !.steps = @ + 1]]
           /\ store' = [store EXCEPT ![turn[s].thread] =
                           Values(messages, turn[s].metadata)]
    /\ age' = [age EXCEPT ![turn[s].thread] = 0]
    /\ UNCHANGED <<extracted_data, dispatched, scenario, committed, writers, cleared>>

ToolCallingLlm(s) ==
    \/ \E content \in AnswerTexts : Decide(s, content, <<>>)
    \/ \E calls \in scenario.menu : Decide(s, "", calls)

\* the model backend raises: the exception leaves graph.invoke
LlmFails(s) ==
    /\ turn[s].pc = "llm"
    /\ turn' = [turn EXCEPT ![s] = [@ EXCEPT !.pc = "failed"]]
    /\ UNCHANGED <<store, extracted_data, dispatched, scenario, committed, writers, age, cleared>>

RECURSIVE ApplyWrites(_, _)
ApplyWrites(ed, writes) ==
    IF writes = <<>> THEN ed
    ELSE ApplyWrites(Put(ed, Head(writes)[1], Head(writes)[2]), Tail(writes))

\* the orders in which the assignments of two threads can take effect
RECURSIVE Interleave(_, _)
Interleave(a, b) ==
    IF a = <<>> THEN {b}
    ELSE IF b = <<>> THEN {a}
    ELSE {<<Head(a)>> \o r : r \in Interleave(Tail(a), b)}
         \cup {<<Head(b)>> \o r : r \in Interleave(a, Tail(b))}

\* ToolNode runs the calls of one message on a thread pool
RECURSIVE WriteOrders(_)
WriteOrders(outs) ==
    IF outs = <<>> THEN {<<>>}
    ELSE UNION { Interleave(Head(outs).writes, rest) : rest \in WriteOrders(Tail(outs)) }

\* the content of the tool message of one execution
ToolContent(out) == IF out.raised THEN "Error: exception" ELSE out.text

\* the results the executions of the requested calls may have
Results(s) ==
    LET calls == turn[s].calls
        n     == Len(calls)
    IN  { outs \in [1..n -> UNION {Execute(calls[i], scenario.cart_id) : i \in 1..n}] :
            \A i \in 1..n : outs[i] \in Execute(calls[i], scenario.cart_id) }

\* the executions assign to extracted_data in one of the orders the thread
\* pool allows
RunTools(s, outs) ==
    \E writes \in WriteOrders(outs) :
        /\ extracted_data' = ApplyWrites(extracted_data, writes)
        /\ writers' = IF writes = <<>> THEN writers ELSE writers \cup {turn[s].id}

Wrote(outs) == \E i \in 1..Len(outs) : outs[i].writes # <<>>

\* node tools: every requested call is executed and the results are appended
\* as tool messages in the order of the calls; an exception of a tool becomes
\* an error message (ToolNode with handle_tool_errors on)
Tools(s) ==
    /\ turn[s].pc = "tools"
    /\ ~OutOfSteps(turn[s].steps)
    /\ \E outs \in Results(s) :
         /\ RunTools(s, outs)
         /\ LET messages == add_messages(turn[s].messages,
                                 [i \in 1..Len(outs) |-> ToolMessage(ToolContent(outs[i]))])
            IN  /\ turn' = [turn EXCEPT ![s] =
                               [@ EXCEPT !.pc = "update_metadata", !.messages = messages,
                                         !.wrote = @ \/ Wrote(outs), !.steps = @ + 1]]
                /\ store' = [store EXCEPT ![turn[s].thread] =
                                Values(messages, turn[s].metadata)]
    /\ age' = [age EXCEPT ![turn[s].thread] = 0]
    /\ dispatched' = dispatched + 1
    /\ UNCHANGED <<scenario, committed, cleared>>

\* node tools when ToolNode re-raises what a tool raised: the other calls of
\* the message have run, and the exception leaves graph.invoke
ToolsRaise(s) ==
    /\ turn[s].pc = "tools"
    /\ ~OutOfSteps(turn[s].steps)
    /\ \E outs \in Results(s) :
         /\ \E i \in 1..Len(outs) : outs[i].raised
         /\ RunTools(s, outs)
         /\ turn' = [turn EXCEPT ![s] = [@ EXCEPT !.pc = "failed", !.wrote = @ \/ Wrote(outs)]]
    /\ dispatched' = dispatched + 1
    /\ UNCHANGED <<store, scenario, committed, age, cleared>>

\* node update_metadata, then the edge back to tool_calling_llm
UpdateMetadata(s) ==
    /\ turn[s].pc = "update_metadata"
    /\ ~OutOfSteps(turn[s].steps)
    /\ LET metadata == update_metadata(turn[s].metadata, turn[s].messages, extracted_data)
       IN  /\ turn' = [turn EXCEPT ![s] = [@ EXCEPT !.pc = "llm", !.metadata = metadata,
                                                     !.steps = @ + 1]]
           /\ store' = [store EXCEPT ![turn[s].thread] =
                           Values(turn[s].messages, metadata)]
    /\ age' = [age EXCEPT ![turn[s].thread] = 0]
    /\ UNCHANGED <<extracted_data, dispatched, scenario, committed, writers, cleared>>

\* the content of the first message from the end that is an AIMessage with
\* content, or None; msgs is already reversed
RECURSIVE FirstAnswer(_)
FirstAnswer(msgs) ==
    IF msgs = <<>> THEN None
    ELSE IF Head(msgs).role = "ai" /\ Truthy(Head(msgs).content) THEN Head(msgs).content
    ELSE FirstAnswer(Tail(msgs))

\* extract_response_and_tools: the answer text and the tool names of the
\* response, from the messages graph.invoke returned; list(set(...)) is a
\* list without duplicates in no particular order, modelled as the set
extract_response_and_tools(messages) ==
    [ai_response |-> IF Truthy(FirstAnswer(Reverse(messages)))
                     THEN FirstAnswer(Reverse(messages))
                     ELSE "I processed your request.",
     tools_used  |-> UNION { {messages[i].tool_calls[j] : j \in 1..Len(messages[i].tool_calls)} :
                             i \in 1..Len(messages) }]

\* graph.invoke has returned: the response is built and sent
ChatReturn(s) ==
    /\ turn[s].pc = "done"
    /\ turn' = [turn EXCEPT ![s] = Closed(turn[s])]
    /\ committed' = [committed EXCEPT ![turn[s].thread] = store[turn[s].thread]]
    /\ UNCHANGED <<store, extracted_data, dispatched, scenario, writers, age, cleared>>

\* `except Exception`: the request is answered with status 500
ChatError(s) ==
    /\ turn[s].pc = "failed"
    /\ turn' = [turn EXCEPT ![s] = Closed(turn[s])]
    /\ UNCHANGED <<store, extracted_data, dispatched, scenario, committed, writers, age, cleared>>

Next ==
    \E s \in Slots :
        \/ ChatBegin(s)
        \/ ToolCallingLlm(s)
        \/ LlmFails(s)
        \/ Tools(s)
        \/ ToolsRaise(s)
        \/ UpdateMetadata(s)
        \/ ChatReturn(s)
        \/ ChatError(s)

Spec == Init /\ [][Next]_vars

\* the same program on the runs of BusyScenarios
InitBusy == Start(BusyScenarios)

SpecBusy == InitBusy /\ [][Next]_vars

\* ------------------------------------------------------------ tool loop
\* The model backend may request a tool at every Decision.  The number of
\* Dispatch steps of a run is then bounded by the limit on supersteps alone.
\* graph.invoke raises GraphRecursionError: the run has made RecursionLimit
\* supersteps and a node is still to run; chat() answers with status 500
GraphRecursionError(s) ==
    /\ turn[s].pc \in {"llm", "tools", "update_metadata"}
    /\ OutOfSteps(turn[s].steps)
    /\ turn' = [turn EXCEPT ![s] = [@ EXCEPT !.pc = "failed"]]
    /\ UNCHANGED <<store, extracted_data, dispatched, scenario, committed, writers, age, cleared>>

NextLoop ==
    \E s \in Slots :
        \/ ChatBegin(s)
        \/ ToolCallingLlm(s)
        \/ LlmFails(s)
        \/ Tools(s)
        \/ UpdateMetadata(s)
        \/ GraphRecursionError(s)
        \/ ChatReturn(s)
        \/ ChatError(s)

InitLoop == Start(LoopScenarios)

\* chat() runs to its return once it has started, and every call of the model
\* backend and of a tool returns or raises
SpecLoop == InitLoop /\ [][NextLoop]_vars /\ WF_vars(NextLoop)

\* ------------------------------------------------------------ retention
\* Time passes between requests (a turn is short against the unit of the
\* clock): every stored state ages, and the store drops the states whose ttl
\* is up.  The age of a thread is not counted beyond the ttl.
Tick ==
    /\ EventLoopFree
    /\ \E t \in Threads : store[t] # EmptyDict
    /\ age' = [t \in Threads |->
                  IF store[t] = EmptyDict THEN age[t]
                  ELSE IF age[t] + TickMinutes >= DefaultTtl THEN DefaultTtl
                  ELSE age[t] + TickMinutes]
    /\ store' = [t \in Threads |->
                    IF store[t] # EmptyDict /\ Expired(age'[t]) THEN EmptyDict ELSE store[t]]
    /\ UNCHANGED <<extracted_data, turn, dispatched, scenario, committed, writers, cleared>>

NextTtl == Next \/ Tick

\* the runs followed over time: a caller who searches, a caller with a cart
RetentionScenarios ==
    { Scenario(None,     {<<SearchHat>>, <<SearchPrice>>}),
      Scenario("cart_1", {<<GetCart>>, <<AskKb>>}) }

InitTtl == Init /\ scenario \in RetentionScenarios

SpecTtl == InitTtl /\ [][NextTtl]_vars

\* ------------------------------------------------------------ explicit reset
\* DELETE /chat/clear/{thread_id}: a graph is created, the request is logged
\* and {"status": "success"} is returned; the checkpointer is not written
clear_conversation(thread_id) ==
    /\ EventLoopFree
    /\ thread_id \notin cleared
    /\ cleared' = cleared \cup {thread_id}
    /\ UNCHANGED <<store, extracted_data, turn, dispatched, scenario, committed, writers, age>>

NextClear == Next \/ \E t \in Threads : clear_conversation(t)

SpecClear == Init /\ [][NextClear]_vars

\* ------------------------------------------------------------ damaged state
\* The stored state of an idle conversation is damaged outside the program:
\* its bytes no longer deserialize, or its metadata channel is lost.
Corrupt(t) ==
    /\ EventLoopFree
    /\ store[t] # EmptyDict /\ CanLoad(store[t]) /\ Has(store[t], "metadata")
    /\ store' \in { [store EXCEPT ![t] = Unreadable],
                    [store EXCEPT ![t] = [messages |-> store[t].messages]] }
    /\ UNCHANGED <<extracted_data, turn, dispatched, scenario, committed, writers, age, cleared>>

\* chat() when graph.get_state raises: the side channel has been reset, the
\* exception is caught by `except Exception`
ChatLoadFails(s) ==
    /\ turn[s].pc = "queued"
    /\ \A r \in Slots : r < s => turn[r].pc # "queued"
    /\ EventLoopFree
    /\ ~CanLoad(store[turn[s].thread])
    /\ extracted_data' = ChatReset(extracted_data)
    /\ writers' = IF extracted_data' = EmptyDict THEN {} ELSE writers
    /\ turn' = [turn EXCEPT ![s] = [@ EXCEPT !.pc = "failed"]]
    /\ UNCHANGED <<store, dispatched, scenario, committed, age, cleared>>

NextCorrupt ==
    \/ Next
    \/ \E t \in Threads : Corrupt(t)
    \/ \E s \in Slots : ChatLoadFails(s)

SpecCorrupt == Init /\ [][NextCorrupt]_vars

\* ------------------------------------------------------------ properties
LastMessage(s) == turn[s].messages[Len(turn[s].messages)]

\* the Metadata Accumulator has just run in request s: the loop is back at the
\* Decision Step with the results of the Dispatch Step as the latest messages
AfterFold(s) == turn[s].pc = "llm" /\ LastMessage(s).role = "tool"

IsPrefix(a, b) == Len(a) <= Len(b) /\ SubSeq(b, 1, Len(a)) = a

NoDuplicates(seq) == \A i, j \in 1..Len(seq) : seq[i] = seq[j] => i = j

\* C1: within one turn control moves Decision -> Dispatch -> Accumulator ->
\* Decision only: Dispatch is entered only from a Decision whose output holds
\* at least one tool request, the Accumulator is entered only from Dispatch and
\* left only for the Decision Step, and the graph returns exactly when the
\* latest Decision output holds no tool request.
C1_Flow(s) ==
    LET pc  == turn[s].pc
        pc2 == turn'[s].pc
        out == turn'[s].messages[Len(turn'[s].messages)]
    IN  pc2 # pc =>
          /\ pc = "llm" => pc2 \in {"tools", "done", "failed"}
          /\ pc = "tools" => pc2 \in {"update_metadata", "failed"}
          /\ pc = "update_metadata" => pc2 = "llm"
          /\ pc2 = "llm" => pc \in {"queued", "update_metadata"}
          /\ (pc = "llm" /\ pc2 # "failed") =>
                /\ out.role = "ai"
                /\ pc2 = "tools" <=> out.tool_calls # <<>>
                /\ pc2 = "done" <=> out.tool_calls = <<>>

C1_ControlFlow == [][\A s \in Slots : C1_Flow(s)]_vars

\* C1 witness: a turn that went through Dispatch and the Accumulator has ended
C1_Witness ==
    \E s \in Slots :
        /\ turn[s].pc = "done"
        /\ Len(turn[s].messages) >= turn[s].base + 3
        /\ turn[s].messages[turn[s].base + 1].tool_calls # <<>>

\* C2: a turn that fails has committed nothing: the store holds for its
\* conversation what the last successful turn left there.
C2_FailedTurnCommitsNothing ==
    \A s \in Slots :
        turn[s].pc = "failed" => store[turn[s].thread] = committed[turn[s].thread]

\* C3: turns of one conversation id are serialized: no two requests with the
\* same thread_id are inside a turn at once, the stored state of a conversation
\* is the state of the one turn running on it, and it keeps every message of
\* the state its last turn returned with.
C3_SameIdSerialized ==
    /\ \A r, s \in Slots :
          (r # s /\ InTurn(r) /\ InTurn(s)) => turn[r].thread # turn[s].thread
    /\ \A s \in Slots :
          (InTurn(s) /\ turn[s].pc # "failed") =>
              store[turn[s].thread] = Values(turn[s].messages, turn[s].metadata)
    /\ \A t \in Threads :
          committed[t] # EmptyDict => IsPrefix(committed[t].messages, store[t].messages)

\* C3 witness: a request waits while a turn of the same conversation is past
\* its Dispatch Step
C3_Witness ==
    \E r, s \in Slots :
        /\ turn[r].pc = "update_metadata"
        /\ turn[s].pc = "queued"
        /\ turn[r].thread = turn[s].thread

\* C4: what extracted_data holds while a turn runs, and so what that turn
\* folds into metadata and returns as its payload, was written by the tools of
\* that turn alone, and nothing the turn wrote has been reset by another.
C4_PayloadOwnTurn ==
    \A s \in Slots :
        InTurn(s) => writers = IF turn[s].wrote THEN {turn[s].id} ELSE {}

\* C4 witness: two requests of different conversations, both outstanding from
\* the start; the first returned a payload, the second has folded its own
C4_Witness ==
    \E r, s \in Slots :
        /\ turn[r].thread # turn[s].thread
        /\ turn[r].pc = "closed" /\ turn[r].wrote
        /\ AfterFold(s) /\ turn[s].wrote
        /\ extracted_data # EmptyDict

\* every entry of a is an entry of b
SeqSubset(a, b) == \A i \in 1..Len(a) : Contains(b, a[i])

\* metadata m2 keeps everything metadata m1 records
Enriched(m1, m2) ==
    /\ \A k \in {"products_discussed", "tools_used"} :
          Has(m1, k) => Has(m2, k) /\ SeqSubset(m1[k], m2[k])
    /\ \A k \in {"product_id_map", "product_variants"} :
          Has(m1, k) => Has(m2, k) /\ Keys(m1[k]) \subseteq Keys(m2[k])
    /\ \A k \in {"last_search_query", "customer_name"} :
          Has(m1, k) => Has(m2, k) /\ Truthy(m2[k])
    /\ Has(m1, "cart_items_count") => Has(m2, "cart_items_count")

\* C5: metadata is monotonic within a conversation: no step removes an entry
\* of products_discussed, product_id_map, product_variants or tools_used, or
\* clears last_search_query, cart_items_count or customer_name.
C5_Monotonic ==
    [][\A t \in Threads :
          (store[t] # EmptyDict /\ store'[t] # EmptyDict) =>
              Enriched(store[t].metadata, store'[t].metadata)]_vars

\* C5 witness: a later turn of a conversation runs on metadata that records
\* products and a search of an earlier turn
C5_Witness ==
    \E r, s \in Slots :
        /\ turn[r].pc = "closed" /\ turn[s].pc = "done"
        /\ turn[r].thread = turn[s].thread
        /\ committed[turn[s].thread] # EmptyDict
        /\ Len(committed[turn[s].thread].metadata.products_discussed) >= 3
        /\ Has(turn[s].metadata, "last_search_query")
        /\ turn[s].metadata.tools_used # <<>>

\* extracted_data after one more execution of a plain search
SearchPayloads ==
    { ApplyWrites(extracted_data, out.writes) :
        out \in { o \in search_products("hat") : ~o.raised } }

\* C6: folding a search result twice yields the metadata of folding it once,
\* and leaves no duplicate title in products_discussed and no duplicate key in
\* product_id_map.
C6_FoldIdempotent ==
    \A s \in Slots :
        InTurn(s) =>
          \A ed \in SearchPayloads :
            LET once  == update_metadata(turn[s].metadata, turn[s].messages, ed)
                twice == update_metadata(once, turn[s].messages, ed)
            IN  /\ twice = once
                /\ NoDuplicates(once.products_discussed)
                /\ NoDuplicates([i \in 1..Len(once.product_id_map) |->
                                    once.product_id_map[i][1]])

\* C6 witness: a search result with products has been folded into metadata
\* that already recorded products
C6_Witness ==
    \E s \in Slots :
        /\ AfterFold(s)
        /\ GetStr(extracted_data, "type") = "search"
        /\ Len(extracted_data.products) >= 3
        /\ dispatched = 2
        /\ Len(turn[s].metadata.products_discussed) >= 3

\* the id of the last of the products whose lowercased title is key
RECURSIVE LastIdFor(_, _)
LastIdFor(products, key) ==
    IF products = <<>> THEN None
    ELSE LET p == products[Len(products)]
         IN  IF Lower(p.title) = key THEN p.id
             ELSE LastIdFor(SubSeq(products, 1, Len(products) - 1), key)

\* the first 3 products of the payload are recorded in metadata md
TopProductsFolded(md, ed) ==
    LET top == Take(GetSeq(ed, "products"), 3)
    IN  \A i \in 1..Len(top) :
          /\ Contains(GetSeq(md, "products_discussed"), top[i].title)
          /\ HasKey(GetSeq(md, "product_id_map"), Lower(top[i].title))
          /\ Lookup(md.product_id_map, Lower(top[i].title)) = LastIdFor(top, Lower(top[i].title))

\* C7: after the accumulator folds a result of type search for query q, the
\* titles of its first 3 products are in products_discussed, product_id_map
\* maps their lowercased titles to their ids, and last_search_query is q, also
\* for a result with no products.
C7_SearchFolded ==
    \A s \in Slots :
        (AfterFold(s) /\ GetStr(extracted_data, "type") = "search") =>
            /\ TopProductsFolded(turn[s].metadata, extracted_data)
            /\ GetStr(turn[s].metadata, "last_search_query") = extracted_data.query

\* the first Decision Step of a later turn of a conversation in which tool
\* name was requested before
LaterTurnAfter(s, name) ==
    /\ turn[s].pc = "llm"
    /\ Len(turn[s].messages) = turn[s].base
    /\ Contains(GetSeq(turn[s].metadata, "tools_used"), name)

\* C8: in a fresh conversation, after the accumulator folds the price_search
\* result of search_by_price("t-shirts", 20), last_search_query is
\* "t-shirts (under $20)" and the first 3 products are recorded; the Context
\* Builder of the next turn renders Last search: 't-shirts (under $20)'.
C8_PriceSearchFolded ==
    \A s \in Slots :
        /\ (AfterFold(s) /\ turn[s].base = 1
              /\ GetStr(extracted_data, "type") = "price_search") =>
               /\ GetStr(turn[s].metadata, "last_search_query") = "t-shirts (under $20)"
               /\ TopProductsFolded(turn[s].metadata, extracted_data)
        /\ LaterTurnAfter(s, "search_by_price") =>
               Contains(context_parts(turn[s].metadata),
                        "Last search: 't-shirts (under $20)'")

\* C9: after the accumulator folds a payload of type cart or cart_updated that
\* holds a cart, cart_items_count is the number of items of that cart.
C9_CartCountFolded ==
    \A s \in Slots :
        (AfterFold(s)
           /\ GetStr(extracted_data, "type") \in {"cart", "cart_updated"}
           /\ Has(extracted_data.cart, "items")) =>
            /\ Has(turn[s].metadata, "cart_items_count")
            /\ turn[s].metadata.cart_items_count = Len(extracted_data.cart.items)

\* C10: after the accumulator folds the customer_info result of get_my_info
\* for a customer with a first name, customer_name is the first and last name
\* joined by a space, and the Context Builder renders the customer line.
C10_CustomerNameFolded ==
    \A s \in Slots :
        (AfterFold(s)
           /\ GetStr(extracted_data, "type") = "customer_info"
           /\ Truthy(GetStr(extracted_data.customer, "first_name"))) =>
            LET name == extracted_data.customer.first_name \o " "
                          \o extracted_data.customer.last_name
            IN  /\ GetStr(turn[s].metadata, "customer_name") = name
                /\ Contains(context_parts(turn[s].metadata), "Customer: " \o name)

\* C11: after the accumulator folds a product_details payload of a product
\* with variants, product_variants[product_id] is that product's variant list
\* reduced to {id, title, options}, the title is in products_discussed exactly
\* once, and product_id_map maps the lowercased title to the product id.
C11_ProductDetailsFolded ==
    \A s \in Slots :
        (AfterFold(s)
           /\ GetStr(extracted_data, "type") = "product_details"
           /\ extracted_data.product.variants # <<>>) =>
            LET product == extracted_data.product
                md      == turn[s].metadata
                reduced == [i \in 1..Len(product.variants) |->
                              [id      |-> product.variants[i].id,
                               title   |-> product.variants[i].title,
                               options |-> product.variants[i].options]]
            IN  /\ HasKey(md.product_variants, product.id)
                /\ Lookup(md.product_variants, product.id) = reduced
                /\ Contains(md.products_discussed, product.title)
                /\ NoDuplicates(md.products_discussed)
                /\ HasKey(md.product_id_map, Lower(product.title))
                /\ Lookup(md.product_id_map, Lower(product.title)) = product.id

\* C11 witness: the details of a product with three variants have been folded
\* a second time, after a Dispatch Step that wrote nothing new
C11_Witness ==
    \E s \in Slots :
        /\ AfterFold(s)
        /\ GetStr(extracted_data, "type") = "product_details"
        /\ dispatched = 2
        /\ Len(Lookup(turn[s].metadata.product_variants, "p1")) = 3
        /\ turn[s].metadata.products_discussed = <<"Shirt">>

\* C12: after each accumulator run, the name of every tool requested in the
\* Dispatch Step that just completed is in tools_used, whatever the number of
\* requests of that step, and no name is in tools_used twice.
C12_ToolsUsedComplete ==
    \A s \in Slots :
        AfterFold(s) =>
            /\ \A i \in 1..Len(turn[s].calls) :
                  Contains(turn[s].metadata.tools_used, turn[s].calls[i].name)
            /\ NoDuplicates(turn[s].metadata.tools_used)

\* the fields the Context Builder reads, by the kind of their value
SeqFields == {"products_discussed", "product_id_map", "product_variants"}

StrFields == {"last_search_query", "customer_name"}

\* the fields of metadata md that are present and not empty
NonEmptyFields(md) ==
    {k \in SeqFields : Has(md, k) /\ Len(md[k]) > 0}
    \cup {k \in StrFields : Has(md, k) /\ md[k] \notin {"", None}}
    \cup {k \in {"cart_items_count"} : Has(md, k) /\ md[k] > 0}

\* C13: the Context Builder emits one line for every field that is present
\* and not empty and no line for a field that is absent or empty, and its
\* output is the no-context marker only when all six fields are empty.
C13_ContextSections ==
    \A s \in Slots :
        turn[s].pc = "llm" =>
            LET md    == turn[s].metadata
                parts == context_parts(md)
                full  == NonEmptyFields(md)
            IN  /\ Len(parts) = Cardinality(full)
                /\ "products_discussed" \in full =>
                       Contains(parts, "Products recently discussed: "
                                         \o Join(LastN(md.products_discussed, 3), ", "))
                /\ "last_search_query" \in full =>
                       Contains(parts, "Last search: '" \o md.last_search_query \o "'")
                /\ "cart_items_count" \in full =>
                       Contains(parts, "Cart has " \o IntStr(md.cart_items_count) \o " items")
                /\ "customer_name" \in full =>
                       Contains(parts, "Customer: " \o md.customer_name)
                /\ context_str(md) = "No previous context" <=> full = {}
                /\ full # {} => context_str(md) = Join(parts, "\n")

\* C13 witness: a Decision Step on metadata that records products, their ids
\* and a search, and neither variants nor a cart nor a customer
C13_Witness ==
    \E s \in Slots :
        /\ turn[s].pc = "llm"
        /\ NonEmptyFields(turn[s].metadata)
              = {"products_discussed", "product_id_map", "last_search_query"}
        /\ Len(context_parts(turn[s].metadata)) = 3

\* C14: when no metadata field is present, the system prompt of the Decision
\* Step holds the no-prior-context marker between its fixed parts.
C14_MarkerInPrompt ==
    \A s \in Slots :
        (turn[s].pc = "llm" /\ NonEmptyFields(turn[s].metadata) = {}) =>
            system_content(turn[s].metadata)
              = PromptHead \o "No previous context" \o PromptTail

\* C15: a Dispatch Step with two tool requests, whatever the executions do,
\* appends the tool-response messages of both requests to the history and
\* hands over to the accumulator, from where the loop returns to the Decision
\* Step; a failing first tool does not keep the second result out.
C15_DispatchRunsAll ==
    [][\A s \in Slots :
          (turn[s].pc = "tools" /\ Len(turn[s].calls) = 2 /\ turn'[s] # turn[s]) =>
              /\ turn'[s].pc = "update_metadata"
              /\ Len(turn'[s].messages) = Len(turn[s].messages) + 2
              /\ \A i \in 1..2 :
                    turn'[s].messages[Len(turn[s].messages) + i].role = "tool"]_vars

\* C16: no execution of a registered tool lets a failure of its external
\* collaborator escape as an exception: every outcome of every requested call
\* is a result string.
C16_ToolsCaptureFailures ==
    \A s \in Slots :
        turn[s].pc = "tools" =>
            \A i \in 1..Len(turn[s].calls) :
                \A out \in Execute(turn[s].calls[i], scenario.cart_id) : ~out.raised

\* C17: the first Decision Step of the turn that follows a returned turn of
\* the same conversation sees the messages that turn returned with, plus the
\* new user message, and the metadata that turn returned with.
C17_RoundTrip ==
    \A s \in Slots :
        (turn[s].pc = "llm" /\ Len(turn[s].messages) = turn[s].base
           /\ committed[turn[s].thread] # EmptyDict) =>
            /\ turn[s].messages
                 = Append(committed[turn[s].thread].messages, HumanMessage("query"))
            /\ turn[s].metadata = committed[turn[s].thread].metadata

\* C17 witness: a turn starts on a conversation whose last turn returned with
\* tool results in its history and products and a search in its metadata
C17_Witness ==
    \E s \in Slots :
        /\ turn[s].pc = "llm" /\ Len(turn[s].messages) = turn[s].base
        /\ committed[turn[s].thread] # EmptyDict
        /\ Len(committed[turn[s].thread].messages) >= 4
        /\ Has(committed[turn[s].thread].metadata, "last_search_query")
        /\ Len(turn[s].metadata.products_discussed) = 3

\* C18: a request on a conversation id with no stored state does not fail at
\* the load: it reaches its first Decision Step with the user message as the
\* whole history and with Fresh metadata: products_discussed and tools_used
\* empty, no search query, cart count or customer name, and the fingerprint
\* of the caller's auth token.
C18_UnknownIdStartsFresh ==
    [][\A s \in Slots :
          (turn[s].pc = "queued" /\ turn'[s].pc # "queued"
             /\ store[turn[s].thread] = EmptyDict) =>
              LET md == turn'[s].metadata
              IN  /\ turn'[s].pc = "llm"
                  /\ turn'[s].messages = <<HumanMessage("query")>>
                  /\ Has(md, "products_discussed") /\ md.products_discussed = <<>>
                  /\ Has(md, "tools_used") /\ md.tools_used = <<>>
                  /\ \A k \in {"last_search_query", "cart_items_count", "customer_name",
                                "product_id_map", "product_variants"} : ~Has(md, k)
                  /\ Has(md, "conversation_started")
                  /\ md.conversation_started = "md5(token)"]_vars

\* C18 witness: after a turn of another conversation has returned, a request
\* on an id the store does not know is at its first Decision Step
C18_Witness ==
    \E r, s \in Slots :
        /\ turn[r].pc = "closed" /\ store[turn[r].thread] # EmptyDict
        /\ turn[s].thread # turn[r].thread
        /\ turn[s].pc = "llm" /\ turn[s].base = 1 /\ Len(turn[s].messages) = 1
        /\ committed[turn[s].thread] = EmptyDict

\* C19: a stored state is kept for 30 minutes after its last write.  A request
\* on a conversation whose last turn returned 30 minutes ago or longer starts
\* as a new conversation, with the user message as the whole history and
\* Fresh metadata; one that arrives earlier starts from the returned state.
C19_IdleRetention ==
    [][\A s \in Slots :
          (turn[s].pc = "queued" /\ turn'[s].pc = "llm"
             /\ committed[turn[s].thread] # EmptyDict) =>
              LET t  == turn[s].thread
                  md == turn'[s].metadata
              IN  IF age[t] >= 30
                  THEN /\ turn'[s].messages = <<HumanMessage("query")>>
                       /\ md.products_discussed = <<>> /\ md.tools_used = <<>>
                       /\ NonEmptyFields(md) = {}
                  ELSE /\ turn'[s].messages
                            = Append(committed[t].messages, HumanMessage("query"))
                       /\ md = committed[t].metadata]_vars

\* C19 witness: a request is at its first Decision Step as a new conversation
\* on an id whose earlier turn returned with products in its metadata, the
\* retention window having passed in between
C19_Witness ==
    \E r, s \in Slots :
        /\ turn[r].pc = "closed" /\ turn[r].thread = turn[s].thread
        /\ committed[turn[s].thread] # EmptyDict
        /\ Len(committed[turn[s].thread].metadata.products_discussed) = 3
        /\ turn[s].pc = "llm" /\ turn[s].base = 1 /\ Len(turn[s].messages) = 1
        /\ turn[s].metadata.products_discussed = <<>>

\* the stored state v does not deserialize or lacks the metadata channel
Damaged(v) == v # EmptyDict /\ (~CanLoad(v) \/ ~Has(v, "metadata"))

\* C20: a request on a conversation whose stored state does not deserialize
\* or has messages but no metadata is recovered as a Fresh conversation: it
\* reaches its first Decision Step, not the error response, with the user
\* message as the whole history and empty metadata.
C20_DamagedStateRecovered ==
    [][\A s \in Slots :
          (turn[s].pc = "queued" /\ turn'[s].pc # "queued"
             /\ Damaged(store[turn[s].thread])) =>
              /\ turn'[s].pc = "llm"
              /\ turn'[s].messages = <<HumanMessage("query")>>
              /\ NonEmptyFields(turn'[s].metadata) = {}]_vars

\* the calls of the Dispatch Step of request s that ask add_product_to_cart
\* for product pid without a variant
AddCallsFor(s, pid) ==
    { i \in 1..Len(turn[s].calls) :
        /\ turn[s].calls[i].name = "add_product_to_cart"
        /\ turn[s].calls[i].args.product_id = pid
        /\ ~Truthy(turn[s].calls[i].args.variant_id) }

\* C21: add_product_to_cart with a cart id, a product id and no variant id,
\* for the product p1 with 3 variants: unless the product lookup fails, the
\* response lists all 3 variants, and in no case is the cart-add backend
\* called.
C21_VariantsListedNoAdd ==
    \A s \in Slots :
        (turn[s].pc = "tools" /\ Truthy(scenario.cart_id)) =>
            \A i \in AddCallsFor(s, "p1") :
                \A out \in Execute(turn[s].calls[i], scenario.cart_id) :
                    /\ ~out.raised
                    /\ ~Contains(out.backend, "add_to_cart")
                    /\ out.text # "error: Failed to fetch product" =>
                          out.text = "Choose your variant: S, M, L"

\* C21 witness: the Dispatch Step has answered such a call with the list of
\* the 3 variants
C21_Witness ==
    \E s \in Slots :
        /\ turn[s].pc = "update_metadata"
        /\ Truthy(scenario.cart_id)
        /\ AddCallsFor(s, "p1") # {}
        /\ LastMessage(s).content = "Choose your variant: S, M, L"
        /\ GetStr(extracted_data, "type") = "product_details"

\* C22: the first turn on a thread id after clear_conversation answered
\* success for it starts from a Fresh state: the user message is its whole
\* history and its metadata records nothing.
C22_ClearedStartsFresh ==
    [][\A s \in Slots :
          (turn[s].pc = "queued" /\ turn'[s].pc = "llm"
             /\ turn[s].thread \in cleared) =>
              /\ turn'[s].messages = <<HumanMessage("query")>>
              /\ NonEmptyFields(turn'[s].metadata) = {}
              /\ turn'[s].metadata.tools_used = <<>>]_vars

\* C23: an accumulator run folds only what the Dispatch Step that has just
\* completed produced.  After a Dispatch Step of search_knowledge_base calls
\* alone, which produce no payload, the run folds no payload: applied to the
\* metadata of a new conversation it records what a run without a payload
\* records; and no run reads a payload that another turn wrote.
C23_FoldsOnlyNewPayloads ==
    \A s \in Slots :
        turn[s].pc = "update_metadata" =>
            /\ writers \subseteq {turn[s].id}
            /\ (\A i \in 1..Len(turn[s].calls) :
                    turn[s].calls[i].name = "search_knowledge_base") =>
                  update_metadata(FreshMetadata, turn[s].messages, extracted_data)
                    = update_metadata(FreshMetadata, turn[s].messages, EmptyDict)

\* the payloads of the executions outs folded one after the other, in the
\* order of the requests
RECURSIVE FoldInOrder(_, _)
FoldInOrder(md, outs) ==
    IF outs = <<>> THEN md
    ELSE FoldInOrder(FoldExtracted(md, ApplyWrites(EmptyDict, Head(outs).writes)),
                     Tail(outs))

\* C24: for a Dispatch Step with several tool invocations, whatever the order
\* in which the executions complete, the accumulator run that follows yields
\* the same metadata, which holds the payload of every invocation, folded in
\* the order of the requests.
C24_FoldOrderFixed ==
    \A s \in Slots :
        (turn[s].pc = "tools" /\ Len(turn[s].calls) >= 2) =>
            \A outs \in Results(s) :
                \A writes \in WriteOrders(outs) :
                    update_metadata(turn[s].metadata, turn[s].messages,
                                    ApplyWrites(extracted_data, writes))
                      = FoldInOrder(update_metadata(turn[s].metadata, turn[s].messages,
                                                    EmptyDict), outs)

\* the payload types the accumulator has a branch for
FoldedTypes == {"search", "product_details", "cart", "customer"}

\* the six accumulated fields of metadata md; a container that is absent
\* counts as empty
Accumulated(md) ==
    [lists   |-> [k \in SeqFields |-> GetSeq(md, k)],
     scalars |-> [k \in StrFields \cup {"cart_items_count"} |->
                     IF Has(md, k) THEN <<md[k]>> ELSE <<>>]]

\* C25: an accumulator run over a payload whose type is unknown or absent
\* (the order payloads `list` and `single`, no payload at all) leaves
\* products_discussed, product_id_map, product_variants, last_search_query,
\* cart_items_count and customer_name as they were.
C25_UnknownTypeNoOp ==
    \A s \in Slots :
        (turn[s].pc = "update_metadata"
           /\ GetStr(extracted_data, "type") \notin FoldedTypes) =>
            Accumulated(update_metadata(turn[s].metadata, turn[s].messages, extracted_data))
              = Accumulated(turn[s].metadata)

\* an accumulator run has been made over an order payload of type `list`
C25_Witness ==
    \E s \in Slots :
        /\ AfterFold(s)
        /\ GetStr(extracted_data, "type") = "list"
        /\ Has(extracted_data, "orders")

\* the products of the search payload ed that the accumulator folds
Observed(ed) == Take(GetSeq(ed, "products"), 3)

\* C26: the Context Builder renders the most recent observations: after a
\* search has been folded, each of its (at most 3) products is among the 3
\* products of the line "Products recently discussed", also when the product
\* had been discussed before, and its id mapping is among the 5 mappings of
\* the line "Product IDs".
C26_RendersMostRecent ==
    \A s \in Slots :
        (AfterFold(s) /\ GetStr(extracted_data, "type") = "search"
                      /\ Observed(extracted_data) # <<>>) =>
            LET md      == turn[s].metadata
                recent  == LastN(md.products_discussed, 3)
                mapped  == LastN(md.product_id_map, 5)
                product == Observed(extracted_data)
            IN  /\ context_parts(md)[1]
                     = "Products recently discussed: " \o Join(recent, ", ")
                /\ context_parts(md)[2] = "Product IDs: " \o Join(IdLine(mapped), ", ")
                /\ \A i \in 1..Len(product) :
                      /\ Contains(recent, product[i].title)
                      /\ HasKey(mapped, Lower(product[i].title))

\* the request in slot s is inside the decide/dispatch loop
InLoop(s) == turn[s].pc \in {"llm", "tools", "update_metadata"}

\* the turn of slot s has reached the Answered state or ended with an error
Ended(s) == turn[s].pc \in {"done", "failed", "closed"}

C28_AddsExactlyWhen ==
    \A s \in Slots :
        turn[s].pc = "tools" =>
            \A i \in 1..Len(turn[s].calls) :
                turn[s].calls[i].name = "add_product_to_cart" =>
                    LET cart_id    == scenario.cart_id
                        product_id == turn[s].calls[i].args.product_id
                        variant_id == turn[s].calls[i].args.variant_id
                        looked     == Truthy(product_id) /\ ~Truthy(variant_id)
                        variants   == IF looked THEN ProductDb(product_id).variants ELSE <<>>
                        chosen     == IF Truthy(variant_id) THEN variant_id ELSE variants[1].id
                    IN  \A o \in add_product_to_cart(cart_id, product_id, variant_id) :
                            LET adds   == Contains(o.backend, "add_to_cart")
                                lookup == Contains(o.backend, "get_product_by_id")
                                failed == o.text = "error: Failed to fetch product"
                            IN  /\ adds <=> /\ Truthy(cart_id)
                                            /\ \/ Truthy(variant_id)
                                               \/ looked /\ ~failed /\ Len(variants) = 1
                                /\ lookup <=> (Truthy(cart_id) /\ looked)
                                /\ adds <=> (\E j \in 1..Len(o.writes) :
                                                o.writes[j] = <<"type", "cart_updated">>)
                                /\ \A j \in 1..Len(o.writes) :
                                      (adds /\ o.writes[j][1] = "cart"
                                            /\ Has(o.writes[j][2], "items")) =>
                                          Contains(o.writes[j][2].items, chosen)

\* a product with exactly one variant has been added to the cart without a
\* variant id in the request
C28_Witness ==
    \E s \in Slots :
        /\ turn[s].pc = "update_metadata"
        /\ turn[s].calls = <<AddProduct("p3")>>
        /\ GetStr(extracted_data, "type") = "cart_updated"
        /\ Has(extracted_data.cart, "items")

\* the names of the tools requested by the Decisions of the turn in slot s
RequestedInTurn(s) ==
    UNION { {turn[s].messages[i].tool_calls[j] : j \in 1..Len(turn[s].messages[i].tool_calls)} :
            i \in (turn[s].base + 1)..Len(turn[s].messages) }

\* C29: the tool names of a turn's response are exactly the names of the
\* tools requested during that turn; a tool requested only in an earlier turn
\* of the conversation is not reported.
C29_ToolsOfThisTurn ==
    \A s \in Slots :
        turn[s].pc = "done" =>
            extract_response_and_tools(turn[s].messages).tools_used = RequestedInTurn(s)

\* C30: the answer text of a turn's response is the content of the terminal
\* assistant message of that turn, and the fallback text when that message
\* has no content; it is never the content of an earlier assistant message.
C30_AnswerIsTerminalMessage ==
    \A s \in Slots :
        turn[s].pc = "done" =>
            extract_response_and_tools(turn[s].messages).ai_response
              = IF Truthy(LastMessage(s).content) THEN LastMessage(s).content
                ELSE "I processed your request."

====
